---- MODULE Spec2Model ----
(***************************************************************************)
(* Model of boljen/go-scheduler: the Scheduler (scheduler.go), its         *)
(* per-priority queues (priority.go) and its configuration (config.go).    *)
(*                                                                         *)
(* Caller goroutines run Add, InitPriority and SetMinimumCallback.  Code   *)
(* that runs between s.mu.Lock() and the deferred s.mu.Unlock() is one     *)
(* step, taken when the mutex is free, except in getNextOp: its reads of   *)
(* Minimum and MinimumCallback race with SetMinimumCallback, which takes   *)
(* no lock, and are steps of their own.  A fatal error of the Go runtime   *)
(* ends the program: no action is enabled once fault is set.               *)
(***************************************************************************)
EXTENDS Integers, Sequences, FiniteSets

\* ------------------------------------------------------------------ bounds
NumPriorities == 2     \* priorities are 1..NumPriorities
NumCallers == 2        \* concurrent caller goroutines
MaxAdds == 2           \* Spec: Add is called until MaxAdds units were accepted
MaxCapArg == 1         \* Spec: InitPriority is called with maxops in 0..MaxCapArg
MaxAddsSMC == 2        \* SpecSMC: as MaxAdds
MaxCapArgSMC == 1      \* SpecSMC: as MaxCapArg
MaxMinimum == 1        \* SetMinimumCallback is called with minimum in 0..MaxMinimum
MaxSMCCalls == 1       \* calls of SetMinimumCallback in one run
MaxQueueArg == 1       \* Config.MaxQueueSize is 0 or MaxQueueArg
MaxDefaultCap == 1     \* Config.PriorityDefaultCapacity is in 0..MaxDefaultCap
UintMod == 16          \* uint32 arithmetic is modelled modulo UintMod
MaxWorkers == 2        \* Config.Workers is 0 or MaxWorkers
MaxAddsRun == 2        \* SpecStop, SpecPause: as MaxAdds
MaxCapArgRun == 0      \* SpecStop, SpecPause: as MaxCapArg
MaxPause == 1          \* Pause covers 0..MaxPause of the coming ticks
CapSlack == 2          \* SpecCap starts with 0 or UintMax - CapSlack .. UintMax pending units

Priorities == 1..NumPriorities
Callers == 1..NumCallers

\* ------------------------------------------------------------------ values
Nil == "nil"
ErrInvalidPriority == "ErrInvalidPriority"
ErrMaxCapacity == "ErrMaxCapacity"
ErrPriorityCapacity == "ErrPriorityCapacity"
Free == 0              \* the mutex is unlocked
LoopId == NumCallers + 1   \* the processTicks goroutine as a mutex holder
Callbacks == {Nil, "cb"}   \* func(Priority) values handed to SetMinimumCallback
NoFault == "none"

VARIABLES
    pai, pdc, maxops, fallback,  \* Scheduler fields set once by New
    usingWorkers,                \* s.usingWorkers, set once by New
    opqueue,                     \* s.opqueue: the buffered channel's content
    pause,                       \* s.pause, as the number of coming ticks whose
                                 \* time is not after it
    smcCalls,                    \* calls of SetMinimumCallback made so far
    mu,                          \* s.mu: Free or the goroutine holding it
    pl,                          \* s.pl: priority -> priorityMetadata
    opl,                         \* s.opl: the ordered list (of pointers into pl)
    curops,                      \* s.curops
    pc, arg,                     \* per caller: position and the call's arguments
    lpc, lop,                    \* processTicks: position, GetOperation's result
    nextId,                      \* identity of the next unit handed to Add
    event,                       \* what the last step did (return value, callback)
    fault,                       \* fatal runtime error, NoFault while running
    wk,                          \* per worker goroutine: position and the unit it holds
    closed,                      \* close(s.opqueue) was called
    ticker,                      \* s.ticker: running, or stopped with or without a
                                 \* tick left in its channel
    executed                     \* the units whose Execute was called, in order

vars == <<pai, pdc, maxops, fallback, usingWorkers, opqueue, pause, smcCalls,
          mu, pl, opl, curops, pc, arg, lpc, lop, nextId, event, fault,
          wk, closed, ticker, executed>>
cfgVars == <<pai, pdc, maxops, fallback, usingWorkers>>
runVars == <<wk, closed, ticker, executed>>
schedVars == <<pl, opl, curops>>

\* ------------------------------------------------------------ uint32 helpers
Uint32(n) == n % UintMod
Inc(n) == (n + 1) % UintMod
Dec(n) == (n + UintMod - 1) % UintMod
UintMax == UintMod - 1

\* map[int]Operation
EmptyOplist == [i \in {} |-> 0]
MapPut(f, k, v) == [i \in DOMAIN f \cup {k} |-> IF i = k THEN v ELSE f[i]]
MapDelete(f, k) == [i \in DOMAIN f \ {k} |-> f[i]]

\* config.go: Config.maxops
ConfigMaxops(MaxQueueSize) ==
    IF MaxQueueSize <= 0 THEN UintMax ELSE Uint32(MaxQueueSize)

\* getMaxops without the decrement of 0
getMaxopsNoWrap(m) == Uint32(m)

\* priority.go: getMaxops
getMaxops(m) ==
    LET maxops32 == Uint32(m)
    IN IF maxops32 = 0 THEN Dec(maxops32) ELSE maxops32

\* priority.go: newPriorityMetadata
newPriorityMetadata(p, m) ==
    [priority |-> p, oplist |-> EmptyOplist, curops |-> 0, maxops |-> getMaxops(m),
     first |-> 0, last |-> 0, Minimum |-> 0, MinimumCallback |-> Nil]

\* AddOperation with the capacity test off by one
AddOperationOff(pm, o) ==
    IF pm.curops > pm.maxops
    THEN [pm |-> pm, err |-> ErrPriorityCapacity]
    ELSE [pm |-> [pm EXCEPT !.curops = Inc(@),
                            !.oplist = MapPut(@, pm.last, o),
                            !.last = @ + 1],
          err |-> Nil]

\* AddOperation counting the unit before the capacity test
AddOperationPartial(pm, o) ==
    IF pm.curops = pm.maxops
    THEN [pm |-> [pm EXCEPT !.curops = Inc(@)], err |-> ErrPriorityCapacity]
    ELSE [pm |-> [pm EXCEPT !.curops = Inc(@),
                            !.oplist = MapPut(@, pm.last, o),
                            !.last = @ + 1],
          err |-> Nil]

\* priority.go: AddOperation; the metadata after the call and the error returned
AddOperation(pm, o) ==
    IF pm.curops = pm.maxops
    THEN [pm |-> pm, err |-> ErrPriorityCapacity]
    ELSE [pm |-> [pm EXCEPT !.curops = Inc(@),
                            !.oplist = MapPut(@, pm.last, o),
                            !.last = @ + 1],
          err |-> Nil]

\* GetOperation taking the newest unit, at p.last - 1
GetOperationNewest(pm) ==
    IF pm.last = pm.first
    THEN [pm |-> pm, o |-> 0, ok |-> FALSE]
    ELSE [pm |-> [pm EXCEPT !.oplist = MapDelete(@, pm.last - 1),
                            !.last = @ - 1,
                            !.curops = Dec(@)],
          o |-> pm.oplist[pm.last - 1], ok |-> TRUE]

\* GetOperation without p.curops--
GetOperationNoDec(pm) ==
    IF pm.last = pm.first
    THEN [pm |-> pm, o |-> 0, ok |-> FALSE]
    ELSE [pm |-> [pm EXCEPT !.oplist = MapDelete(@, pm.first),
                            !.first = @ + 1],
          o |-> pm.oplist[pm.first], ok |-> TRUE]

\* priority.go: GetOperation up to p.curops--; the callback test that follows
\* is the release loop's LoopCbNil and LoopCbCall
GetOperation(pm) ==
    IF pm.last = pm.first
    THEN [pm |-> pm, o |-> 0, ok |-> FALSE]
    ELSE [pm |-> [pm EXCEPT !.oplist = MapDelete(@, pm.first),
                            !.first = @ + 1,
                            !.curops = Dec(@)],
          o |-> pm.oplist[pm.first], ok |-> TRUE]

\* the test of GetOperation taking every count at or below the minimum
AtMinimumOrBelow(pm) == pm.curops <= pm.Minimum

\* priority.go: GetOperation, if p.curops == p.Minimum
AtMinimum(pm) == pm.curops = pm.Minimum

\* InitPriority leaving the new priority at the end of the list
ReorderNone(l, i, pm) == l

\* scheduler.go: the reordering loop of InitPriority, i running from
\* len(s.opl)-1 down to 1 (here from Len(l) down to 2)
RECURSIVE Reorder(_, _, _)
Reorder(l, i, pm) ==
    IF i <= 1 THEN l
    ELSE IF l[i] < l[i-1]
         THEN Reorder([l EXCEPT ![i] = l[i-1], ![i-1] = pm], i - 1, pm)
         ELSE Reorder(l, i - 1, pm)

\* scheduler.go: InitPriority under the mutex; the new s.pl and s.opl
InitPriorityBody(plv, oplv, p, m) ==
    IF p \in DOMAIN plv
    THEN [pl |-> [plv EXCEPT ![p].maxops = getMaxops(m)], opl |-> oplv]
    ELSE [pl |-> [q \in DOMAIN plv \cup {p} |->
                    IF q = p THEN newPriorityMetadata(p, m) ELSE plv[q]],
          opl |-> Reorder(Append(oplv, p), Len(oplv) + 1, p)]

\* getNextOp running through the list from its end
ScanFromEnd(plv, oplv, i) ==
    LET S == {k \in i..Len(oplv) : GetOperation(plv[oplv[k]]).ok}
    IN IF S = {} THEN 0 ELSE CHOOSE k \in S : \A j \in S : j <= k

\* scheduler.go: the for loop of getNextOp; index of the first list entry
\* whose GetOperation succeeds, 0 when there is none
RECURSIVE ScanFrom(_, _, _)
ScanFrom(plv, oplv, i) ==
    IF i > Len(oplv) THEN 0
    ELSE IF GetOperation(plv[oplv[i]]).ok THEN i
    ELSE ScanFrom(plv, oplv, i + 1)

\* ----------------------------------------------------------------- state
\* config.go: Config.opbuf, ExecutionBufferSize being left at 0
OpBuf == 1

\* config.go: Config, with the two fields scheduler.go's New reads besides.
\* PriorityDefaultCapacity is read under auto-initialization only.
Configs ==
    {c \in [PriorityAutoInit : BOOLEAN,
            PriorityDefaultCapacity : 0..MaxDefaultCap,
            MaxQueueSize : {0, MaxQueueArg},
            Fallback : BOOLEAN,
            Workers : {0, MaxWorkers}] :
        ~c.PriorityAutoInit => c.PriorityDefaultCapacity = 0}

NoArg == [p |-> 0, n |-> 0, cb |-> Nil, cont |-> "idle"]
NoOp == [p |-> 0, o |-> 0]
\* event: the call or step (op), its priority (p), the error returned (err),
\* the priority a callback was called with (cb, 0 for none), and the unit
\* accepted or released (o; the maxops argument for InitPriority)
Ev(op, p, err, cb, o) == [op |-> op, p |-> p, err |-> err, cb |-> cb, o |-> o]
Step == Ev("step", 0, Nil, 0, 0)
Running == fault = NoFault
\* a worker blocked in op, more := <-ch
Receiving == [pc |-> "recv", o |-> 0]

\* scheduler.go: New
New(c) ==
    /\ pai = c.PriorityAutoInit
    /\ pdc = c.PriorityDefaultCapacity
    /\ maxops = ConfigMaxops(c.MaxQueueSize)
    /\ fallback = c.Fallback
    /\ usingWorkers = (c.Workers > 0)
    /\ opqueue = <<>>
    /\ pause = 0
    /\ smcCalls = 0
    /\ mu = Free
    /\ pl = [q \in {} |-> newPriorityMetadata(q, 0)]
    /\ opl = <<>>
    /\ curops = 0
    /\ pc = [t \in Callers |-> "idle"]
    /\ arg = [t \in Callers |-> NoArg]
    /\ lpc = "wait"
    /\ lop = NoOp
    /\ nextId = 1
    /\ event = Ev("New", 0, Nil, 0, 0)
    /\ fault = NoFault
    /\ wk = [w \in 1..c.Workers |-> Receiving]
    /\ closed = FALSE
    /\ ticker = "running"
    /\ executed = <<>>

\* no step of Spec reads s.pdc
Init == \E c \in Configs : c.PriorityDefaultCapacity = 0 /\ c.Workers = 0 /\ New(c)

\* Idle goroutines are interchangeable: the one of the least number makes
\* the next call
Caller(t) ==
    /\ pc[t] = "idle"
    /\ \A u \in Callers : pc[u] = "idle" => t <= u

\* a caller returns from its call
Return(t, ev) ==
    /\ pc' = [pc EXCEPT ![t] = "idle"]
    /\ arg' = [arg EXCEPT ![t] = NoArg]
    /\ event' = ev

\* the hash map s.pl is read (by getPriorityMetadata, without the mutex)
\* while InitPriority inserts into it
MapRace(t, p) ==
    /\ p \notin DOMAIN pl
    /\ \E u \in Callers \ {t} : pc[u] = "smcGet"

\* ------------------------------------------------------------- the callers
\* the test of Add off by one
AtMaxCapacityOff == curops > maxops

\* scheduler.go: Add, if s.curops >= s.maxops
AtMaxCapacity == curops >= maxops

\* scheduler.go: Add from pm.AddOperation(o) on, pm being in the map plv
AddRest(t, p, plv) ==
    LET r == AddOperation(plv[p], nextId) IN
    /\ pl' = [plv EXCEPT ![p] = r.pm]
    /\ IF r.err # Nil
       THEN /\ Return(t, Ev("Add", p, r.err, 0, 0))
            /\ UNCHANGED <<curops, nextId>>
       ELSE /\ curops' = Inc(curops)
            /\ nextId' = nextId + 1
            /\ Return(t, Ev("Add", p, Nil, 0, nextId))

\* scheduler.go: Add, from s.mu.Lock() to the deferred s.mu.Unlock().  Under
\* auto-initialization getPriorityMetadata calls s.InitPriority, which locks
\* s.mu again: the call goes on in NestedInitPriority.
Add(t, p) ==
    /\ Running /\ Caller(t)
    /\ mu = Free
    /\ IF AtMaxCapacity
       THEN /\ Return(t, Ev("Add", p, ErrMaxCapacity, 0, 0))
            /\ UNCHANGED <<schedVars, nextId, mu>>
       ELSE IF p \notin DOMAIN pl
       THEN IF ~pai
            THEN /\ Return(t, Ev("Add", p, ErrInvalidPriority, 0, 0))
                 /\ UNCHANGED <<schedVars, nextId, mu>>
            ELSE /\ pc' = [pc EXCEPT ![t] = "initLock"]
                 /\ arg' = [arg EXCEPT ![t] = [NoArg EXCEPT !.p = p, !.cont = "add"]]
                 /\ mu' = t
                 /\ event' = Step
                 /\ UNCHANGED <<schedVars, nextId>>
       ELSE /\ AddRest(t, p, pl)
            /\ UNCHANGED <<opl, mu>>
    /\ UNCHANGED <<cfgVars, runVars, opqueue, pause, smcCalls, lpc, lop, fault>>

\* scheduler.go: InitPriority, from s.mu.Lock() to the deferred
\* s.mu.Unlock(): called by a goroutine, or as s.InitPriority(p, s.pdc) by
\* getPriorityMetadata ("initLock") on behalf of SetMinimumCallback, which
\* then reads s.pl[p] (SMCGet), or of Add, which goes on with AddOperation.
\* sync.Mutex is not reentrant: the Lock blocks while any goroutine, the
\* caller included, holds the mutex.
InitPriority(t, p, m) ==
    LET r == InitPriorityBody(pl, opl, p, m) IN
    /\ Running
    /\ \/ Caller(t)
       \/ pc[t] = "initLock" /\ p = arg[t].p /\ m = pdc
    /\ mu = Free
    /\ \/ /\ UNCHANGED fault
          /\ opl' = r.opl
          /\ CASE pc[t] = "idle" ->
                    /\ pl' = r.pl
                    /\ Return(t, Ev("InitPriority", p, Nil, 0, m))
                    /\ UNCHANGED <<curops, nextId>>
               [] pc[t] = "initLock" /\ arg[t].cont = "smc" ->
                    /\ pl' = r.pl
                    /\ pc' = [pc EXCEPT ![t] = "smcGet"]
                    /\ event' = Step
                    /\ UNCHANGED <<arg, curops, nextId>>
               [] pc[t] = "initLock" /\ arg[t].cont = "add" ->
                    AddRest(t, p, r.pl)
       \/ /\ MapRace(t, p)
          /\ fault' = "concurrent map read and map write"
          /\ event' = Step
          /\ UNCHANGED <<schedVars, pc, arg, nextId>>
    /\ UNCHANGED <<cfgVars, runVars, opqueue, pause, smcCalls, mu, lpc, lop>>

\* scheduler.go: SetMinimumCallback is called; it takes no lock
CallSetMinimumCallback(t, p, minimum, cb) ==
    /\ Running /\ Caller(t)
    /\ smcCalls' = smcCalls + 1
    /\ pc' = [pc EXCEPT ![t] = "smcGet"]
    /\ arg' = [arg EXCEPT ![t] = [NoArg EXCEPT !.p = p, !.n = minimum, !.cb = cb]]
    /\ event' = Step
    /\ UNCHANGED <<cfgVars, runVars, opqueue, pause, schedVars, mu, lpc, lop, nextId, fault>>

\* SetMinimumCallback failing on a priority without a queue also under
\* auto-initialization
SMCGetNoAutoInit(t) ==
    LET p == arg[t].p IN
    /\ Running /\ pc[t] = "smcGet"
    /\ IF p \in DOMAIN pl
       THEN /\ pl' = [pl EXCEPT ![p].Minimum = Uint32(arg[t].n)]
            /\ pc' = [pc EXCEPT ![t] = "smcSetCb"]
            /\ arg' = [arg EXCEPT ![t].n = 0]
            /\ event' = Step
       ELSE /\ Return(t, Ev("SetMinimumCallback", p, ErrInvalidPriority, 0, 0))
            /\ UNCHANGED pl
    /\ UNCHANGED <<cfgVars, runVars, opqueue, pause, smcCalls, opl, curops, mu, lpc, lop, nextId, fault>>

\* scheduler.go: getPriorityMetadata as called by SetMinimumCallback, and the
\* assignment pm.Minimum = uint32(minimum)
SMCGet(t) ==
    LET p == arg[t].p IN
    /\ Running /\ pc[t] = "smcGet"
    /\ IF p \in DOMAIN pl
       THEN /\ pl' = [pl EXCEPT ![p].Minimum = Uint32(arg[t].n)]
            /\ pc' = [pc EXCEPT ![t] = "smcSetCb"]
            /\ arg' = [arg EXCEPT ![t].n = 0]
            /\ event' = Step
       ELSE IF ~pai
       THEN /\ Return(t, Ev("SetMinimumCallback", p, ErrInvalidPriority, 0, 0))
            /\ UNCHANGED pl
       ELSE /\ pc' = [pc EXCEPT ![t] = "initLock"]
            /\ arg' = [arg EXCEPT ![t].cont = "smc"]
            /\ event' = Step
            /\ UNCHANGED pl
    /\ UNCHANGED <<cfgVars, runVars, opqueue, pause, smcCalls, opl, curops, mu, lpc, lop, nextId, fault>>

\* scheduler.go: pm.MinimumCallback = cb
SMCSetCb(t) ==
    /\ Running /\ pc[t] = "smcSetCb"
    /\ pl' = [pl EXCEPT ![arg[t].p].MinimumCallback = arg[t].cb]
    /\ pc' = [pc EXCEPT ![t] = "smcCheck"]
    /\ arg' = [arg EXCEPT ![t].cb = Nil]
    /\ event' = Step
    /\ UNCHANGED <<cfgVars, runVars, opqueue, pause, smcCalls, opl, curops, mu, lpc, lop, nextId, fault>>

\* scheduler.go: if pm.Minimum >= pm.curops
SMCCheck(t) ==
    LET p == arg[t].p IN
    /\ Running /\ pc[t] = "smcCheck"
    /\ IF pl[p].Minimum >= pl[p].curops
       THEN /\ pc' = [pc EXCEPT ![t] = "smcCall"]
            /\ event' = Step
            /\ UNCHANGED arg
       ELSE Return(t, Ev("SetMinimumCallback", p, Nil, 0, 0))
    /\ UNCHANGED <<cfgVars, runVars, opqueue, pause, smcCalls, schedVars, mu, lpc, lop, nextId, fault>>

\* scheduler.go: pm.MinimumCallback(pm.priority); return nil.  Calling a nil
\* func panics.
SMCCall(t) ==
    LET p == arg[t].p IN
    /\ Running /\ pc[t] = "smcCall"
    /\ IF pl[p].MinimumCallback = Nil
       THEN /\ fault' = "nil func call"
            /\ event' = Step
            /\ UNCHANGED <<pc, arg>>
       ELSE /\ Return(t, Ev("SetMinimumCallback", p, Nil, pl[p].priority, 0))
            /\ UNCHANGED fault
    /\ UNCHANGED <<cfgVars, runVars, opqueue, pause, smcCalls, schedVars, mu, lpc, lop, nextId>>

\* ------------------------------------------------------ Pause and Stop
\* scheduler.go: Pause is called and evaluates time.Now().Add(d): n of the
\* coming ticks have a time that is not after it
CallPause(t, n) ==
    /\ Running /\ Caller(t)
    /\ pc' = [pc EXCEPT ![t] = "pauseWrite"]
    /\ arg' = [arg EXCEPT ![t] = [NoArg EXCEPT !.n = n]]
    /\ event' = Step
    /\ UNCHANGED <<cfgVars, runVars, opqueue, pause, smcCalls, schedVars, mu, lpc, lop, nextId, fault>>

\* scheduler.go: Pause, the assignment to s.pause, made without the mutex
PauseWrite(t) ==
    /\ Running /\ pc[t] = "pauseWrite"
    /\ pause' = arg[t].n
    /\ Return(t, Ev("Pause", 0, Nil, 0, arg[t].n))
    /\ UNCHANGED <<cfgVars, runVars, opqueue, smcCalls, schedVars, mu, lpc, lop, nextId, fault>>

\* scheduler.go: Stop is called: s.ticker.Stop(), after which the ticker sends
\* no tick; one it sent before may wait in its channel.  A program calls Stop
\* once.
CallStop(t) ==
    /\ Running /\ Caller(t)
    /\ ticker = "running"
    /\ ticker' \in {"stopped", "stoppedTick"}
    /\ pc' = [pc EXCEPT ![t] = "stopClose"]
    /\ event' = Step
    /\ UNCHANGED <<cfgVars, wk, closed, executed, opqueue, pause, smcCalls, schedVars, mu,
                   arg, lpc, lop, nextId, fault>>

\* scheduler.go: Stop, close(s.opqueue); s.opqueue is nil unless New made
\* the channel for the workers, and closing a nil channel panics
StopClose(t) ==
    /\ Running /\ pc[t] = "stopClose"
    /\ IF usingWorkers
       THEN /\ closed' = TRUE
            /\ pc' = [pc EXCEPT ![t] = "stopSend"]
            /\ UNCHANGED fault
       ELSE /\ fault' = "close of nil channel"
            /\ UNCHANGED <<closed, pc>>
    /\ event' = Step
    /\ UNCHANGED <<cfgVars, wk, ticker, executed, opqueue, pause, smcCalls, schedVars, mu,
                   arg, lpc, lop, nextId>>

\* scheduler.go: Stop, s.stop <- true, received by the select of processTicks
\* (case <-s.stop: return); the channel has no buffer, so both goroutines
\* take the step together
StopSend(t) ==
    /\ Running /\ pc[t] = "stopSend"
    /\ lpc = "wait"
    /\ lpc' = "done"
    /\ Return(t, Ev("Stop", 0, Nil, 0, 0))
    /\ UNCHANGED <<cfgVars, runVars, opqueue, pause, smcCalls, schedVars, mu, lop, nextId, fault>>

\* ------------------------------------------------------------- the workers
\* a receive that leaves the unit in the channel
WorkerReceivePeek(w) ==
    /\ Running /\ wk[w].pc = "recv"
    /\ IF opqueue # <<>>
       THEN wk' = [wk EXCEPT ![w] = [pc |-> "exec", o |-> Head(opqueue)]]
       ELSE /\ closed
            /\ wk' = [wk EXCEPT ![w] = [pc |-> "exited", o |-> 0]]
    /\ event' = Step
    /\ UNCHANGED <<cfgVars, closed, ticker, executed, opqueue, pause, smcCalls, schedVars, mu,
                   pc, arg, lpc, lop, nextId, fault>>

\* a worker that leaves as soon as the channel is closed
WorkerReceiveNoDrain(w) ==
    /\ Running /\ wk[w].pc = "recv"
    /\ IF closed
       THEN /\ wk' = [wk EXCEPT ![w] = [pc |-> "exited", o |-> 0]]
            /\ UNCHANGED opqueue
       ELSE /\ opqueue # <<>>
            /\ wk' = [wk EXCEPT ![w] = [pc |-> "exec", o |-> Head(opqueue)]]
            /\ opqueue' = Tail(opqueue)
    /\ event' = Step
    /\ UNCHANGED <<cfgVars, closed, ticker, executed, pause, smcCalls, schedVars, mu,
                   pc, arg, lpc, lop, nextId, fault>>

\* scheduler.go: worker, op, more := <-ch; if !more { break }
WorkerReceive(w) ==
    /\ Running /\ wk[w].pc = "recv"
    /\ IF opqueue # <<>>
       THEN /\ wk' = [wk EXCEPT ![w] = [pc |-> "exec", o |-> Head(opqueue)]]
            /\ opqueue' = Tail(opqueue)
       ELSE /\ closed
            /\ wk' = [wk EXCEPT ![w] = [pc |-> "exited", o |-> 0]]
            /\ UNCHANGED opqueue
    /\ event' = Step
    /\ UNCHANGED <<cfgVars, closed, ticker, executed, pause, smcCalls, schedVars, mu,
                   pc, arg, lpc, lop, nextId, fault>>

\* scheduler.go: worker, op.Execute()
WorkerExecute(w) ==
    /\ Running /\ wk[w].pc = "exec"
    /\ executed' = Append(executed, wk[w].o)
    /\ wk' = [wk EXCEPT ![w] = Receiving]
    /\ event' = Ev("Execute", 0, Nil, 0, wk[w].o)
    /\ UNCHANGED <<cfgVars, closed, ticker, opqueue, pause, smcCalls, schedVars, mu,
                   pc, arg, lpc, lop, nextId, fault>>

\* --------------------------------------------------------- the release loop
\* the test of processTicks the wrong way round, t.Before(s.pause)
PauseAfter == {pause # 0}

\* what s.pause.Before(t) can yield: Pause writes s.pause without the mutex,
\* and a read during the write sees the old or the new time
PauseBefore ==
    {pause = 0} \cup {arg[t].n = 0 : t \in {u \in Callers : pc[u] = "pauseWrite"}}

\* a tick has passed: one coming tick fewer is not after the time
Elapse(n) == IF n > 0 THEN n - 1 ELSE 0

\* scheduler.go: the select of processTicks receives a tick t and calls
\* execOp if s.pause.Before(t)
LoopTick ==
    /\ Running /\ lpc = "wait"
    /\ ticker # "stopped"
    /\ ticker' = IF ticker = "stoppedTick" THEN "stopped" ELSE ticker
    /\ pause' = Elapse(pause)
    /\ arg' = [t \in Callers |->
                 IF pc[t] = "pauseWrite" THEN [arg[t] EXCEPT !.n = Elapse(@)] ELSE arg[t]]
    /\ \E before \in PauseBefore :
          IF before
          THEN /\ lpc' = "lock"
               /\ event' = Step
          ELSE /\ event' = Ev("paused", 0, Nil, 0, 0)
               /\ UNCHANGED lpc
    /\ UNCHANGED <<cfgVars, wk, closed, executed, opqueue, smcCalls, schedVars, mu, pc, lop,
                   nextId, fault>>

\* scheduler.go: getNextOp from s.mu.Lock() on: the for loop, with
\* GetOperation up to its test p.curops == p.Minimum; when every queue is
\* empty getNextOp returns nil and the deferred Unlock runs
LoopScan ==
    LET i == ScanFrom(pl, opl, 1) IN
    /\ Running /\ lpc = "lock"
    /\ mu = Free
    /\ IF i = 0
       THEN /\ lpc' = "dispatch"
            /\ lop' = NoOp
            /\ event' = Ev("getNextOp", 0, Nil, 0, 0)
            /\ UNCHANGED <<pl, mu>>
       ELSE LET p == opl[i]
                r == GetOperation(pl[p])
            IN /\ pl' = [pl EXCEPT ![p] = r.pm]
               /\ lop' = [p |-> p, o |-> r.o]
               /\ lpc' = IF AtMinimum(r.pm) THEN "cbNil" ELSE "ret"
               /\ mu' = LoopId
               /\ event' = Step
    /\ UNCHANGED <<cfgVars, runVars, opqueue, pause, smcCalls, opl, curops, pc, arg, nextId, fault>>

\* priority.go: GetOperation, && p.MinimumCallback != nil
LoopCbNil ==
    /\ Running /\ lpc = "cbNil"
    /\ lpc' = IF pl[lop.p].MinimumCallback # Nil THEN "cbCall" ELSE "ret"
    /\ event' = Step
    /\ UNCHANGED <<cfgVars, runVars, opqueue, pause, smcCalls, schedVars, mu, pc, arg, lop, nextId, fault>>

\* priority.go: GetOperation, p.MinimumCallback(p.priority)
LoopCbCall ==
    /\ Running /\ lpc = "cbCall"
    /\ IF pl[lop.p].MinimumCallback = Nil
       THEN /\ fault' = "nil func call"
            /\ event' = Step
            /\ UNCHANGED lpc
       ELSE /\ lpc' = "ret"
            /\ event' = Ev("GetOperation", lop.p, Nil, pl[lop.p].priority, lop.o)
            /\ UNCHANGED fault
    /\ UNCHANGED <<cfgVars, runVars, opqueue, pause, smcCalls, schedVars, mu, pc, arg, lop, nextId>>

\* getNextOp going on with its for loop instead of returning op
LoopRetContinue ==
    /\ Running /\ lpc = "ret"
    /\ curops' = Dec(curops)
    /\ mu' = Free
    /\ lpc' = "lock"
    /\ event' = Ev("getNextOp", lop.p, Nil, 0, lop.o)
    /\ UNCHANGED <<cfgVars, runVars, opqueue, pause, smcCalls, pl, opl, pc, arg, lop, nextId, fault>>

\* scheduler.go: getNextOp, s.curops-- and return op with the deferred Unlock
LoopRet ==
    /\ Running /\ lpc = "ret"
    /\ curops' = Dec(curops)
    /\ mu' = Free
    /\ lpc' = "dispatch"
    /\ event' = Ev("getNextOp", lop.p, Nil, 0, lop.o)
    /\ UNCHANGED <<cfgVars, runVars, opqueue, pause, smcCalls, pl, opl, pc, arg, lop, nextId, fault>>

\* execOp handing the fallback to the workers when there are workers
LoopDispatchFallbackSent ==
    /\ Running /\ lpc = "dispatch"
    /\ IF lop.o = 0 /\ ~(fallback /\ usingWorkers)
       THEN /\ event' = IF fallback THEN Ev("fallback", 0, Nil, 0, 0) ELSE Step
            /\ lpc' = "wait" /\ lop' = NoOp
            /\ UNCHANGED <<opqueue, executed, fault>>
       ELSE IF usingWorkers
       THEN IF closed
            THEN /\ fault' = "send on closed channel"
                 /\ event' = Step
                 /\ UNCHANGED <<opqueue, executed, lpc, lop>>
            ELSE /\ Len(opqueue) < OpBuf
                 /\ opqueue' = Append(opqueue, lop.o)
                 /\ event' = Ev("send", lop.p, Nil, 0, lop.o)
                 /\ lpc' = "wait" /\ lop' = NoOp
                 /\ UNCHANGED <<executed, fault>>
       ELSE /\ event' = Ev("Execute", lop.p, Nil, 0, lop.o)
            /\ executed' = Append(executed, lop.o)
            /\ lpc' = "wait" /\ lop' = NoOp
            /\ UNCHANGED <<opqueue, fault>>
    /\ UNCHANGED <<cfgVars, wk, closed, ticker, pause, smcCalls, schedVars, mu, pc, arg, nextId>>

\* scheduler.go: execOp after getNextOp: the fallback, the send to the
\* workers' channel (which blocks while the buffer is full, and panics once
\* the channel is closed) or o.Execute()
LoopDispatch ==
    /\ Running /\ lpc = "dispatch"
    /\ IF lop.o = 0
       THEN /\ event' = IF fallback THEN Ev("fallback", 0, Nil, 0, 0) ELSE Step
            /\ lpc' = "wait" /\ lop' = NoOp
            /\ UNCHANGED <<opqueue, executed, fault>>
       ELSE IF usingWorkers
       THEN IF closed
            THEN /\ fault' = "send on closed channel"
                 /\ event' = Step
                 /\ UNCHANGED <<opqueue, executed, lpc, lop>>
            ELSE /\ Len(opqueue) < OpBuf
                 /\ opqueue' = Append(opqueue, lop.o)
                 /\ event' = Ev("send", lop.p, Nil, 0, lop.o)
                 /\ lpc' = "wait" /\ lop' = NoOp
                 /\ UNCHANGED <<executed, fault>>
       ELSE /\ event' = Ev("Execute", lop.p, Nil, 0, lop.o)
            /\ executed' = Append(executed, lop.o)
            /\ lpc' = "wait" /\ lop' = NoOp
            /\ UNCHANGED <<opqueue, fault>>
    /\ UNCHANGED <<cfgVars, wk, closed, ticker, pause, smcCalls, schedVars, mu, pc, arg, nextId>>

\* the goroutines of a program that calls Add and InitPriority
Next ==
    \/ \E t \in Callers, p \in Priorities : nextId <= MaxAdds /\ Add(t, p)
    \/ \E t \in Callers, p \in Priorities, m \in 0..MaxCapArg : InitPriority(t, p, m)
    \/ LoopTick
    \/ LoopScan
    \/ LoopCbNil
    \/ LoopRet
    \/ LoopDispatch

Spec == Init /\ [][Next]_vars

\* the goroutines of a program that calls SetMinimumCallback as well
NextSMC ==
    \/ \E t \in Callers, p \in Priorities : nextId <= MaxAddsSMC /\ Add(t, p)
    \/ \E t \in Callers, p \in Priorities, m \in 0..MaxCapArgSMC : InitPriority(t, p, m)
    \/ \E t \in Callers, p \in Priorities, n \in 0..MaxMinimum, cb \in Callbacks :
          smcCalls < MaxSMCCalls /\ CallSetMinimumCallback(t, p, n, cb)
    \/ \E t \in Callers : SMCGet(t)
    \/ \E t \in Callers : SMCSetCb(t)
    \/ \E t \in Callers : SMCCheck(t)
    \/ \E t \in Callers : SMCCall(t)
    \/ LoopTick
    \/ LoopScan
    \/ LoopCbNil
    \/ LoopCbCall
    \/ LoopRet
    \/ LoopDispatch

InitSMC == \E c \in Configs : ~c.Fallback /\ c.Workers = 0 /\ New(c)

SpecSMC == InitSMC /\ [][NextSMC]_vars

\* The ticker goes on sending ticks and the processTicks goroutine is
\* scheduled: a step of the release loop that stays possible is taken.
Loop == LoopTick \/ LoopScan \/ LoopCbNil \/ LoopRet \/ LoopDispatch

\* no workers, no fallback
InitFair ==
    \E c \in Configs :
        /\ c.PriorityDefaultCapacity = 0 /\ c.Workers = 0 /\ ~c.Fallback
        /\ New(c)

SpecFair == InitFair /\ [][Next]_vars /\ WF_vars(Loop)

\* The scheduler when the counters come near the end of their range: New
\* with MaxQueueSize q, InitPriority(1, 0), and k calls of Add(1, o), which
\* were all accepted
Filled(c, q, k) ==
    /\ k <= getMaxops(0) /\ k <= ConfigMaxops(q)
    /\ pai = c.PriorityAutoInit
    /\ pdc = c.PriorityDefaultCapacity
    /\ maxops = ConfigMaxops(q)
    /\ fallback = c.Fallback
    /\ usingWorkers = (c.Workers > 0)
    /\ opqueue = <<>>
    /\ pause = 0
    /\ smcCalls = 0
    /\ mu = Free
    /\ pl = [p \in {1} |->
               [newPriorityMetadata(1, 0) EXCEPT
                   !.oplist = [i \in 0..(k - 1) |-> i + 1],
                   !.last = k,
                   !.curops = Uint32(k)]]
    /\ opl = <<1>>
    /\ curops = Uint32(k)
    /\ pc = [t \in Callers |-> "idle"]
    /\ arg = [t \in Callers |-> NoArg]
    /\ lpc = "wait"
    /\ lop = NoOp
    /\ nextId = k + 1
    /\ event = Ev("Add", 1, Nil, 0, k)
    /\ fault = NoFault
    /\ wk = [w \in 1..c.Workers |-> Receiving]
    /\ closed = FALSE
    /\ ticker = "running"
    /\ executed = <<>>

InitCap ==
    \E c \in Configs, q \in {0, -1}, k \in {0} \cup (UintMax - CapSlack)..UintMax :
        /\ ~c.PriorityAutoInit /\ c.Workers = 0 /\ ~c.Fallback
        /\ Filled(c, q, k)

\* Add is called while few units were handed over or the counter is near its
\* end
NextCap ==
    \/ \E t \in Callers, p \in Priorities :
          /\ nextId <= MaxAddsRun \/ (curops >= UintMax - CapSlack /\ nextId <= UintMod + 1)
          /\ Add(t, p)
    \/ \E t \in Callers, p \in Priorities, m \in 0..MaxCapArgRun : InitPriority(t, p, m)
    \/ LoopTick
    \/ LoopScan
    \/ LoopCbNil
    \/ LoopRet
    \/ LoopDispatch

SpecCap == InitCap /\ [][NextCap]_vars

\* the goroutines of a program that calls Stop, with the workers
NextStop ==
    \/ \E t \in Callers, p \in Priorities : nextId <= MaxAddsRun /\ Add(t, p)
    \/ \E t \in Callers, p \in Priorities, m \in 0..MaxCapArgRun : InitPriority(t, p, m)
    \/ \E t \in Callers : CallStop(t)
    \/ \E t \in Callers : StopClose(t)
    \/ \E t \in Callers : StopSend(t)
    \/ \E w \in DOMAIN wk : WorkerReceive(w)
    \/ \E w \in DOMAIN wk : WorkerExecute(w)
    \/ LoopTick
    \/ LoopScan
    \/ LoopCbNil
    \/ LoopRet
    \/ LoopDispatch

\* neither auto-initialization nor the global maximum bears on Stop
InitStop ==
    \E c \in Configs :
        /\ ~c.PriorityAutoInit /\ c.MaxQueueSize = 0
        /\ New(c)

SpecStop == InitStop /\ [][NextStop]_vars

\* a worker goroutine that can receive or execute is scheduled
WorkerStep(w) == w \in DOMAIN wk /\ (WorkerReceive(w) \/ WorkerExecute(w))

SpecStopFair == SpecStop /\ \A w \in 1..MaxWorkers : WF_vars(WorkerStep(w))

\* the goroutines of a program that calls Pause
NextPause ==
    \/ \E t \in Callers, p \in Priorities : nextId <= MaxAddsRun /\ Add(t, p)
    \/ \E t \in Callers, p \in Priorities, m \in 0..MaxCapArgRun : InitPriority(t, p, m)
    \/ \E t \in Callers, n \in 0..MaxPause : CallPause(t, n)
    \/ \E t \in Callers : PauseWrite(t)
    \/ LoopTick
    \/ LoopScan
    \/ LoopCbNil
    \/ LoopRet
    \/ LoopDispatch

InitPause ==
    \E c \in Configs :
        /\ ~c.PriorityAutoInit /\ c.MaxQueueSize = 0 /\ c.Workers = 0
        /\ New(c)

SpecPause == InitPause /\ [][NextPause]_vars

\* ------------------------------------------------------------ the claims
\* the units pending in the queue of priority p of the map plv
PendingOf(plv, p) == {plv[p].oplist[i] : i \in DOMAIN plv[p].oplist}
Pending(p) == PendingOf(pl, p)
NonEmpty == {p \in DOMAIN pl : Pending(p) # {}}
MinOf(S) == CHOOSE x \in S : \A y \in S : x <= y
\* the step is getNextOp's run through the list
Dequeues == lpc = "lock" /\ lpc' # "lock"

RECURSIVE SumCounts(_, _)
SumCounts(plv, S) ==
    IF S = {} THEN 0
    ELSE LET p == CHOOSE q \in S : TRUE
         IN plv[p].curops + SumCounts(plv, S \ {p})

C2_FIFO ==
    [][/\ \A p \in DOMAIN pl :
            \/ PendingOf(pl', p) = Pending(p)
            \/ /\ PendingOf(pl', p) = Pending(p) \cup {nextId}
               /\ \A o \in Pending(p) : o < nextId
               /\ nextId' = nextId + 1
            \/ /\ Pending(p) # {}
               /\ PendingOf(pl', p) = Pending(p) \ {MinOf(Pending(p))}
               /\ lop' = [p |-> p, o |-> MinOf(Pending(p))]
       /\ Dequeues /\ NonEmpty = {} => lop' = NoOp /\ pl' = pl]_vars

\* C2 witness: the older of two units of one queue was dequeued
C2_Witness ==
    /\ lpc \in {"cbNil", "ret"}
    /\ Pending(lop.p) # {}
    /\ \A o \in Pending(lop.p) : lop.o < o

\* C3: Add returns ErrMaxCapacity whenever s.curops equals s.maxops, whatever
\* the state of the target priority, and returns an error of the priority
\* only when s.curops is below s.maxops.
C3_GlobalCheckFirst ==
    [][event'.op = "Add" =>
        /\ curops = maxops => event'.err = ErrMaxCapacity
        /\ event'.err \in {ErrInvalidPriority, ErrPriorityCapacity} => curops < maxops]_vars

\* C3 witness: Add returned ErrMaxCapacity for a priority whose queue has room
C3_Witness ==
    /\ event.op = "Add" /\ event.err = ErrMaxCapacity
    /\ event.p \in DOMAIN pl
    /\ pl[event.p].curops < pl[event.p].maxops

\* C4: below the global maximum, Add to a priority whose count equals its
\* capacity returns ErrPriorityCapacity and leaves the queue as it was, and
\* Add to a priority without a queue, auto-initialization being off, returns
\* ErrInvalidPriority.
C4_PerLevelAdmission ==
    [][event'.op = "Add" /\ curops < maxops =>
        LET p == event'.p IN
        /\ p \in DOMAIN pl /\ pl[p].curops = pl[p].maxops =>
              event'.err = ErrPriorityCapacity /\ pl'[p] = pl[p]
        /\ p \notin DOMAIN pl /\ ~pai => event'.err = ErrInvalidPriority]_vars

\* C4 witness: Add returned ErrPriorityCapacity below the global maximum
C4_Witness ==
    /\ event.op = "Add" /\ event.err = ErrPriorityCapacity
    /\ curops < maxops

\* C5: a call of Add or SetMinimumCallback that returns an error leaves
\* s.curops, the map and the ordered list, with every queue's fields, as
\* they were.
C5_NoPartialEffect ==
    [][event'.op \in {"Add", "SetMinimumCallback"} /\ event'.err # Nil =>
        UNCHANGED <<curops, pl, opl>>]_vars

\* C5 witness: SetMinimumCallback returned ErrInvalidPriority while units
\* are pending
C5_Witness ==
    /\ event.op = "SetMinimumCallback" /\ event.err = ErrInvalidPriority
    /\ curops > 0

\* C6: whenever the mutex is free, s.curops is at most s.maxops and equals
\* the sum of the queues' counts.
C6_GlobalCounter ==
    mu = Free => curops <= maxops /\ curops = SumCounts(pl, DOMAIN pl)

\* C6 witness: the release loop has returned a unit and units are still
\* pending
C6_Witness ==
    /\ mu = Free
    /\ event.op = "getNextOp" /\ event.o # 0
    /\ curops > 0

\* C7: the count of every queue is at most its capacity.
C7_CountWithinCapacity ==
    \A p \in DOMAIN pl : pl[p].curops <= pl[p].maxops

\* C8: the ordered list is strictly ascending and holds exactly the
\* priorities of the map; InitPriority on a priority that has a queue
\* replaces its capacity and changes nothing else.
C8_IndexWellFormed ==
    /\ [](/\ \A i \in 1..Len(opl) - 1 : opl[i] < opl[i + 1]
          /\ {opl[i] : i \in 1..Len(opl)} = DOMAIN pl)
    /\ [][event'.op = "InitPriority" /\ event'.p \in DOMAIN pl =>
            /\ opl' = opl
            /\ pl' = [pl EXCEPT ![event'.p].maxops = getMaxops(event'.o)]]_vars

\* C8 witness: InitPriority was called on a priority with pending units, two
\* priorities being in the list
C8_Witness ==
    /\ event.op = "InitPriority"
    /\ pl[event.p].curops > 0
    /\ Len(opl) = 2

\* C9: with auto-initialization an Add on a priority without a queue never
\* waits for the mutex it holds itself.
C9_AutoInitAddCompletes ==
    \A t \in Callers : ~(pc[t] = "initLock" /\ arg[t].cont = "add" /\ mu = t)

\* the step is caller t's lookup of the priority in SetMinimumCallback
SMCLooksUp(t) == pc[t] = "smcGet" /\ pc'[t] # "smcGet"

C11_FiresAtOrBelow ==
    [][/\ \A t \in Callers :
            /\ pc[t] = "smcCheck" /\ pc'[t] # "smcCheck" =>
                  ((pc'[t] = "smcCall") <=>
                      (pl[arg[t].p].curops <= pl[arg[t].p].Minimum))
            /\ pc[t] = "smcCall" /\ pc'[t] # "smcCall" =>
                  event' = Ev("SetMinimumCallback", arg[t].p, Nil, arg[t].p, 0)
       /\ Dequeues /\ lop'.o # 0 =>
            ((lpc' = "cbNil") <=>
                (pl'[lop'.p].curops <= pl'[lop'.p].Minimum))
       /\ lpc = "cbNil" /\ lpc' # "cbNil" =>
            lpc' = IF pl[lop.p].MinimumCallback # Nil THEN "cbCall" ELSE "ret"
       /\ lpc = "cbCall" /\ lpc' # "cbCall" =>
            lpc' = "ret" /\ event' = Ev("GetOperation", lop.p, Nil, lop.p, lop.o)
       /\ event'.cb # 0 => event'.op \in {"GetOperation", "SetMinimumCallback"}]_vars

\* C11 amended: registering a callback that is not nil while the count is at
\* or below the threshold calls it before the call returns; a dequeue calls
\* the registered callback, once, exactly when the resulting count equals the
\* threshold, and not when it is below; no other step, an enqueue least of
\* all, calls a callback.
C11_FiresAtMinimum ==
    [][/\ \A t \in Callers :
            /\ pc[t] = "smcCheck" /\ pc'[t] # "smcCheck" =>
                  ((pc'[t] = "smcCall") <=>
                      (pl[arg[t].p].curops <= pl[arg[t].p].Minimum))
            /\ pc[t] = "smcCall" /\ pc'[t] # "smcCall" =>
                  event' = Ev("SetMinimumCallback", arg[t].p, Nil, arg[t].p, 0)
       /\ Dequeues /\ lop'.o # 0 =>
            /\ lpc' \in {"cbNil", "ret"}
            /\ (lpc' = "cbNil") <=>
                  (pl'[lop'.p].curops = pl'[lop'.p].Minimum)
       /\ lpc = "cbNil" /\ lpc' # "cbNil" =>
            lpc' = IF pl[lop.p].MinimumCallback # Nil THEN "cbCall" ELSE "ret"
       /\ lpc = "cbCall" /\ lpc' # "cbCall" =>
            lpc' = "ret" /\ event' = Ev("GetOperation", lop.p, Nil, lop.p, lop.o)
       /\ event'.cb # 0 =>
            \/ event'.op = "GetOperation" /\ lpc = "cbCall"
            \/ event'.op = "SetMinimumCallback"
                  /\ \E t \in Callers : pc[t] = "smcCall" /\ pc'[t] = "idle"]_vars

\* C11 witness: a dequeue left the count below the threshold of a registered
\* callback, and getNextOp returns without having called it
C11_Witness ==
    /\ lpc = "ret" /\ event.op # "GetOperation"
    /\ pl[lop.p].MinimumCallback # Nil
    /\ pl[lop.p].curops < pl[lop.p].Minimum

\* how often unit i occurs in the sequence q
Times(i, q) == Cardinality({k \in 1..Len(q) : q[k] = i})
\* the places that hold unit i: slots of the queues, the release loop between
\* its dequeue and its dispatch, slots of the channel's buffer, workers
Holders(i) ==
    Cardinality({x \in (DOMAIN pl) \X (0..nextId) :
                    x[2] \in DOMAIN pl[x[1]].oplist /\ pl[x[1]].oplist[x[2]] = i})
    + (IF lop.o = i THEN 1 ELSE 0)
    + Times(i, opqueue)
    + Cardinality({w \in DOMAIN wk : wk[w].o = i})
Accepted == 1..(nextId - 1)

\* C12: a unit that Add accepted is held by at most one of the queues, the
\* release loop, the buffer and the workers, or was executed once and is held
\* by none; what is held or was executed is a unit that Add accepted.
C12_SingleOwner ==
    /\ \A i \in Accepted : Holders(i) + Times(i, executed) <= 1
    /\ \A k \in 1..Len(executed) : executed[k] \in Accepted
    /\ \A k \in 1..Len(opqueue) : opqueue[k] \in Accepted
    /\ \A w \in DOMAIN wk : wk[w].pc = "exec" => wk[w].o \in Accepted
    /\ lop.o # 0 => lop.o \in Accepted

\* C12 witness: two workers hold a unit each
C12_Witness ==
    \E v, w \in DOMAIN wk : v # w /\ wk[v].pc = "exec" /\ wk[w].pc = "exec"

\* C13: without workers, fallback, Stop and Pause, and with finitely many
\* calls of Add, every unit that Add accepted is executed in the end, and none
\* is executed twice.
C13_EventuallyExecuted ==
    /\ \A i \in 1..MaxAdds : [](i \in Accepted => <>(Times(i, executed) = 1))
    /\ [](\A i \in Accepted : Times(i, executed) <= 1)

\* C14: the release loop never sends on the closed channel of the workers,
\* be it a send begun after Stop closed the channel or one that waited for
\* room in the buffer when it did.
C14_NoSendOnClosed == fault # "send on closed channel"

\* the step is the receipt of a tick by processTicks
TickReceived == lpc = "wait" /\ (lpc' = "lock" \/ event'.op = "paused")
\* a call of Pause has not returned
PauseRunning == \E t \in Callers : pc[t] = "pauseWrite"

\* C15: Pause sets the time until which the scheduler pauses.  A tick whose
\* time is not after it, received when no call of Pause is running, starts
\* no dequeue and no fallback and leaves the queues and s.curops as they are;
\* the first tick after it starts execOp without a further call.  Nothing is
\* dequeued, executed or handed over but by a tick that was not paused.
C15_PauseSuspends ==
    [][/\ \A t \in Callers :
            pc[t] = "pauseWrite" /\ pc'[t] = "idle" => pause' = arg[t].n
       /\ TickReceived =>
            /\ UNCHANGED <<pl, opl, curops, executed, opqueue>>
            /\ ~PauseRunning /\ pause > 0 =>
                  lpc' = "wait" /\ event'.op = "paused" /\ pause' = pause - 1
            /\ ~PauseRunning /\ pause = 0 => lpc' = "lock"
       /\ lpc = "wait" => lpc' \in {"wait", "lock"}
       /\ Dequeues => lpc = "lock"
       /\ event'.op \in {"fallback", "Execute", "send"} => lpc = "dispatch"]_vars

\* C15 witness: a tick was received during the pause while a unit is pending
C15_Witness ==
    /\ event.op = "paused" /\ lpc = "wait"
    /\ curops > 0
    /\ ~PauseRunning

\* the step is execOp's, after getNextOp returned
Dispatches == lpc = "dispatch" /\ lpc' = "wait"

\* C16: getNextOp returns nil exactly when every queue is empty; execOp then
\* executes the fallback exactly when one is configured, in the release loop
\* and with nothing put into the workers' channel, workers or not, and
\* changes nothing when none is configured; the fallback is executed by no
\* other step, and what is put into the channel is a unit that Add accepted.
C16_FallbackRule ==
    [][/\ Dequeues => ((lop'.o = 0) <=> (NonEmpty = {}))
       /\ Dequeues /\ NonEmpty = {} =>
            UNCHANGED <<pl, opl, curops, opqueue, executed, wk>>
       /\ Dispatches /\ lop.o = 0 =>
            /\ (event'.op = "fallback") <=> fallback
            /\ UNCHANGED <<pl, opl, curops, opqueue, executed, wk>>
       /\ event'.op = "fallback" => Dispatches /\ lop.o = 0 /\ fallback
       /\ Len(opqueue') > Len(opqueue) =>
            /\ Dispatches /\ lop.o \in Accepted
            /\ opqueue' = Append(opqueue, lop.o)]_vars

\* C16 witness: the release loop executed the fallback of a scheduler that
\* has workers
C16_Witness ==
    /\ event.op = "fallback"
    /\ usingWorkers /\ lpc = "wait"

\* C17: a tick that is not paused starts one run of execOp, which dequeues at
\* most once and ends in one step that executes the unit, or hands it to the
\* workers, or executes the fallback, or does nothing; the release loop does
\* not dequeue again before it has received another tick.  The sum of the
\* counts goes down by one in a dequeue, s.curops by one when getNextOp
\* returns the unit, and in no other step.
C17_OneReleasePerTick ==
    [][/\ lpc = "wait" => lpc' \in {"wait", "lock", "done"}
       /\ lpc = "lock" => lpc' \in {"lock", "cbNil", "ret", "dispatch"}
       /\ lpc \in {"cbNil", "cbCall"} => lpc' \in {"cbNil", "cbCall", "ret"}
       /\ lpc = "ret" => lpc' \in {"ret", "dispatch"}
       /\ lpc = "dispatch" => lpc' \in {"dispatch", "wait"}
       /\ lpc' = "lock" /\ lpc # "lock" => TickReceived
       /\ SumCounts(pl', DOMAIN pl') < SumCounts(pl, DOMAIN pl) =>
            /\ Dequeues /\ lop'.o # 0
            /\ SumCounts(pl', DOMAIN pl') = SumCounts(pl, DOMAIN pl) - 1
       /\ curops' # curops /\ curops' # Inc(curops) =>
            lpc = "ret" /\ lpc' = "dispatch" /\ curops' = Dec(curops)
       /\ Dispatches =>
            /\ lop' = NoOp
            /\ IF lop.o = 0
               THEN UNCHANGED <<opqueue, executed>>
               ELSE /\ event'.op \in {"Execute", "send"} /\ event'.o = lop.o
                    /\ \/ executed' = Append(executed, lop.o) /\ UNCHANGED opqueue
                       \/ opqueue' = Append(opqueue, lop.o) /\ UNCHANGED executed
       /\ event'.op \in {"fallback", "send"} => Dispatches]_vars

\* C17 witness: a tick released one unit and left another pending
C17_Witness ==
    /\ event.op \in {"Execute", "send"} /\ lpc = "wait"
    /\ curops > 0

\* C18: Stop, with workers or without, does not panic in closing the channel,
\* and when it has returned the release loop has returned too.
C18_StopCompletes ==
    /\ fault # "close of nil channel"
    /\ event.op = "Stop" => lpc = "done"

AllExited == \A w \in DOMAIN wk : wk[w].pc = "exited"

C20_ZeroUnbounded ==
    /\ [](maxops = UintMax)
    /\ [][/\ event'.op = "InitPriority" /\ event'.o = 0 =>
                pl'[event'.p].maxops = UintMax
          /\ event'.op = "Add" /\ event'.p \in DOMAIN pl
                /\ pl[event'.p].maxops = UintMax =>
                event'.err # ErrPriorityCapacity
          /\ event'.op = "Add" => event'.err # ErrMaxCapacity]_vars

\* C20 amended: capacity 0 and global maximum 0 or below are stored as the
\* greatest uint32; Add to a queue of capacity 0 does not return
\* ErrPriorityCapacity, and Add to a scheduler of global maximum 0 or below
\* returns ErrMaxCapacity when s.curops is the greatest uint32 and at no
\* smaller count.
C20_ZeroIsUintMax ==
    /\ [](maxops = UintMax)
    /\ [][/\ event'.op = "InitPriority" /\ event'.o = 0 =>
                pl'[event'.p].maxops = UintMax
          /\ event'.op = "Add" /\ event'.p \in DOMAIN pl
                /\ pl[event'.p].maxops = UintMax =>
                event'.err # ErrPriorityCapacity
          /\ event'.op = "Add" =>
                ((event'.err = ErrMaxCapacity) <=> (curops = UintMax))]_vars

\* C20 witness: Add returned ErrMaxCapacity from a scheduler of global
\* maximum 0 or below that holds as many units as the counter can count
C20_Witness ==
    /\ event.op = "Add" /\ event.err = ErrMaxCapacity
    /\ maxops = UintMax /\ curops = UintMax
    /\ Cardinality(Pending(1)) + (IF 2 \in DOMAIN pl THEN Cardinality(Pending(2)) ELSE 0) = UintMax

====
